---- MODULE Spec2Model ----
(***************************************************************************)
(* Model of rooch's DA replay helpers                                      *)
(* (crates/rooch/src/commands/da/commands/mod.rs):                         *)
(*   collect_chunks, get_tx_list_from_chunk, LedgerTxGetter,               *)
(*   TxOrderHashBlock (FromStr / Display) and TxOrderHashBlockGetter       *)
(*   (load_from_file, slice, find_last_executed, has_executed).            *)
(*                                                                         *)
(* Positions are 0-based as in the Rust code; a Rust index i is the TLA+   *)
(* sequence index i + 1.  u64 / usize / u128 are scaled to U64Bits /       *)
(* U128Bits bits; usize is taken to be as wide as u64 (64-bit targets).    *)
(***************************************************************************)
EXTENDS Integers, Sequences, FiniteSets, TLC

VARIABLES
    build,   \* "debug" (overflow checks on) or "release" (wrapping arithmetic)
    file,    \* the index file: a sequence of lines, each a sequence of ':'-separated parts
    store,   \* the execution store: tx_hash -> "some" | "none" | "err"
    getter,  \* the TxOrderHashBlockGetter, if one was constructed
    dir,     \* the segment directory: [readable, entries]
    ltg,     \* the LedgerTxGetter, if one was constructed
    ret,     \* the outcome of the last call
    calls    \* the external calls (store queries, file reads, codec calls) of the last call

vars == <<build, file, store, getter, dir, ltg, ret, calls>>

----------------------------------------------------------------------------
(* Bounds of the model *)

U64Bits == 4        \* scaled width of u64 / usize
U128Bits == 5       \* scaled width of u128
MaxOrder == 3       \* small tx_order values 0..MaxOrder (U64_MAX is always included)
MaxSliceLen == 3    \* longest index in SpecSlice
MaxFindLen == 4     \* longest index in SpecFind
MaxHash == 3        \* tx hashes 1..MaxHash
MaxLoadLines == 3   \* longest index file in SpecLoad
MaxChunk == 1       \* small chunk ids 0..MaxChunk (U128_MAX is always included)
MaxSeg == 1         \* segment numbers 0..MaxSeg
MaxDirEntries == 3  \* most entries of the directory in SpecCollect
MaxLedgerEntries == 2   \* most entries of the directory in SpecLedger
MaxSegList == 2     \* longest segment list in SpecReader
MaxProbeLen == 6    \* longest index in SpecProbe

U64_MOD == 2 ^ U64Bits
U64_MAX == U64_MOD - 1
U128_MAX == (2 ^ U128Bits) - 1

Hashes == 1 .. MaxHash
Orders == (0 .. MaxOrder) \cup {U64_MAX}
Builds == {"debug", "release"}

----------------------------------------------------------------------------
(* Results *)

Ok(v) == [kind |-> "ok", val |-> v]
Err(m) == [kind |-> "err", val |-> m]
Panic(m) == [kind |-> "panic", val |-> m]

\* Rust integer arithmetic on u64 / usize: overflow panics when the build has
\* overflow checks (debug) and wraps otherwise (release).
SubU64(b, x, y) ==
    IF x >= y THEN Ok(x - y)
    ELSE IF b = "debug" THEN Panic("attempt to subtract with overflow")
    ELSE Ok(x - y + U64_MOD)

AddUsize(b, x, y) ==
    IF x + y < U64_MOD THEN Ok(x + y)
    ELSE IF b = "debug" THEN Panic("attempt to add with overflow")
    ELSE Ok((x + y) % U64_MOD)

----------------------------------------------------------------------------
(* TxOrderHashBlock and its text form *)

TxOrderHashBlock(o, h, n) == [tx_order |-> o, tx_hash |-> h, block_number |-> n]

\* The parts of a line are tokens: a decimal number, a 64-digit hex hash, or
\* anything else (including the empty string of a blank line).
Dec(n) == [kind |-> "dec", val |-> n]
Hex(h) == [kind |-> "hex", val |-> h]
Junk == [kind |-> "junk", val |-> 0]
BadUtf8 == [kind |-> "badutf8", val |-> 0]

ParseU64(t) == IF t.kind = "dec" /\ t.val <= U64_MAX THEN Ok(t.val) ELSE Err("ParseIntError")
ParseU128(t) == IF t.kind = "dec" /\ t.val <= U128_MAX THEN Ok(t.val) ELSE Err("ParseIntError")
ParseH256(t) == IF t.kind = "hex" THEN Ok(t.val) ELSE Err("FromHexError")

\* impl Display for TxOrderHashBlock
Display(x) == <<Dec(x.tx_order), Hex(x.tx_hash), Dec(x.block_number)>>

\* impl FromStr for TxOrderHashBlock; `parts` is s.split(':')
FromStr(parts) ==
    IF Len(parts) # 3 THEN Err("Invalid format")
    ELSE LET tx_order == ParseU64(parts[1]) IN
         IF tx_order.kind # "ok" THEN tx_order
         ELSE LET tx_hash == ParseH256(parts[2]) IN
              IF tx_hash.kind # "ok" THEN tx_hash
              ELSE LET block_number == ParseU128(parts[3]) IN
                   IF block_number.kind # "ok" THEN block_number
                   ELSE Ok(TxOrderHashBlock(tx_order.val, tx_hash.val, block_number.val))

----------------------------------------------------------------------------
(* TxOrderHashBlockGetter::load_from_file *)

\* reader.lines() yields Err for a line that is not UTF-8
ReadLine(line) == IF line = <<BadUtf8>> THEN Err("stream did not contain valid UTF-8") ELSE Ok(line)

\* Mutant: a line that does not parse ends the load with what was read so far.
RECURSIVE LoadLinesPartial(_, _, _)
LoadLinesPartial(lines, i, tx_order_hashes) ==
    IF i > Len(lines) THEN Ok(tx_order_hashes)
    ELSE LET line == ReadLine(lines[i]) IN
         IF line.kind # "ok" THEN line
         ELSE LET item == FromStr(line.val) IN
              IF item.kind # "ok" THEN Ok(tx_order_hashes)
              ELSE LoadLinesPartial(lines, i + 1, Append(tx_order_hashes, item.val))

RECURSIVE LoadLines(_, _, _)
LoadLines(lines, i, tx_order_hashes) ==
    IF i > Len(lines) THEN Ok(tx_order_hashes)
    ELSE LET line == ReadLine(lines[i]) IN
         IF line.kind # "ok" THEN line
         ELSE LET item == FromStr(line.val) IN
              IF item.kind # "ok" THEN item
              ELSE LoadLines(lines, i + 1, Append(tx_order_hashes, item.val))

load_from_file(openable, lines) ==
    IF ~openable THEN Err("No such file or directory")
    ELSE LoadLines(lines, 1, <<>>)

NoGetter == [loaded |-> FALSE, tx_order_hash_blocks |-> <<>>]
Getter(blocks) == [loaded |-> TRUE, tx_order_hash_blocks |-> blocks]

----------------------------------------------------------------------------
(* TxOrderHashBlockGetter::slice *)

\* <[T]>::binary_search_by(|x| x.tx_order.cmp(&start_tx_order)) as implemented
\* by the standard library: Ok(i) only for an element that compares Equal.
RECURSIVE BinarySearchLoop(_, _, _, _)
BinarySearchLoop(blocks, target, left, right) ==
    IF left < right
    THEN LET mid == left + ((right - left) \div 2)
             o == blocks[mid + 1].tx_order
         IN IF o = target THEN [found |-> TRUE, idx |-> mid]
            ELSE IF o < target THEN BinarySearchLoop(blocks, target, mid + 1, right)
            ELSE BinarySearchLoop(blocks, target, left, mid)
    ELSE [found |-> FALSE, idx |-> left]

\* Mutant: the insertion point of an absent key is taken as a match.
binary_search_nearest(blocks, start_tx_order) ==
    [found |-> TRUE, idx |-> BinarySearchLoop(blocks, start_tx_order, 0, Len(blocks)).idx]

binary_search_by(blocks, start_tx_order) ==
    BinarySearchLoop(blocks, start_tx_order, 0, Len(blocks))

\* let end_idx = start_idx + (end_tx_order - start_tx_order) as usize;
EndIdx(b, start_idx, start_tx_order, end_tx_order) ==
    LET d == SubU64(b, end_tx_order, start_tx_order) IN
    IF d.kind # "ok" THEN d ELSE AddUsize(b, start_idx, d.val)

\* Mutant: the range start_idx..end_idx, which leaves out the record at end_idx.
RangeEndExclusive(b, end_idx) == Ok(end_idx)

\* The end of the range start_idx..end_idx + 1
RangeEnd(b, end_idx) == AddUsize(b, end_idx, 1)

\* self.tx_order_hash_blocks[from..to].to_vec(): the range check of slice indexing
IndexRange(blocks, from, to) ==
    IF from > to THEN Panic("slice index starts after its end")
    ELSE IF to > Len(blocks) THEN Panic("range end index out of range for slice")
    ELSE Ok(SubSeq(blocks, from + 1, to))

\* Mutant: once the start is found, the records are selected by tx_order.
slice_by_tx_order(b, blocks, start_tx_order, end_tx_order) ==
    IF ~binary_search_by(blocks, start_tx_order).found THEN Err("start_tx_order not found")
    ELSE LET InRange(x) == start_tx_order <= x.tx_order /\ x.tx_order <= end_tx_order
         IN Ok(SelectSeq(blocks, InRange))

slice(b, blocks, start_tx_order, end_tx_order) ==
    LET r == binary_search_by(blocks, start_tx_order) IN
    IF ~r.found THEN Err("start_tx_order not found")
    ELSE LET start_idx == r.idx
             end_idx == EndIdx(b, start_idx, start_tx_order, end_tx_order)
         IN IF end_idx.kind # "ok" THEN end_idx
            ELSE LET to == RangeEnd(b, end_idx.val) IN
                 IF to.kind # "ok" THEN to
                 ELSE IndexRange(blocks, start_idx, to.val)

----------------------------------------------------------------------------
(* TxOrderHashBlockGetter::has_executed and find_last_executed *)

\* transaction_store.get_tx_execution_info(tx_hash): Option<..> or a store error
get_tx_execution_info(st, tx_hash) ==
    IF st[tx_hash] = "err" THEN Err("store error") ELSE Ok(st[tx_hash])

has_executed(st, tx_hash) ==
    LET execution_info == get_tx_execution_info(st, tx_hash) IN
    IF execution_info.kind # "ok" THEN execution_info
    ELSE Ok(execution_info.val = "some")

Query(left, right, idx, ok) ==
    [step |-> "has_executed", left |-> left, right |-> right, idx |-> idx, ok |-> ok]

\* Mutant: a record that is not executed moves right down by one (a linear scan).
RECURSIVE FindLoopLinear(_, _, _, _, _)
FindLoopLinear(blocks, st, left, right, log) ==
    IF left < right
    THEN LET mid == (left + right) \div 2
             executed == has_executed(st, blocks[mid + 1].tx_hash)
             log2 == Append(log, Query(left, right, mid, executed.kind = "ok"))
         IN IF executed.kind # "ok"
            THEN [res |-> executed, left |-> left, log |-> log2]
            ELSE IF executed.val
                 THEN FindLoopLinear(blocks, st, mid + 1, right, log2)
                 ELSE FindLoopLinear(blocks, st, left, right - 1, log2)
    ELSE [res |-> Ok(TRUE), left |-> left, log |-> log]

\* The while loop of find_last_executed; log holds one entry per store query.
RECURSIVE FindLoop(_, _, _, _, _)
FindLoop(blocks, st, left, right, log) ==
    IF left < right
    THEN LET mid == (left + right) \div 2
             executed == has_executed(st, blocks[mid + 1].tx_hash)
             log2 == Append(log, Query(left, right, mid, executed.kind = "ok"))
         IN IF executed.kind # "ok"
            THEN [res |-> executed, left |-> left, log |-> log2]
            ELSE IF executed.val
                 THEN FindLoop(blocks, st, mid + 1, right, log2)
                 ELSE FindLoop(blocks, st, left, mid, log2)
    ELSE [res |-> Ok(TRUE), left |-> left, log |-> log]

\* Mutant: no step back to the preceding record; None whenever the converged
\* index is not executed.
FindResultNoStepBack(blocks, left, last_executed) ==
    IF ~last_executed THEN Ok(<<>>) ELSE Ok(<<blocks[left + 1]>>)

\* Mutant: the record at the converged index is returned also when it is not executed.
FindResultAtLeft(blocks, left, last_executed) ==
    IF left = 0 /\ ~last_executed THEN Ok(<<>>)
    ELSE Ok(<<blocks[left + 1]>>)

\* "Determine result": Option<TxOrderHashBlock> as a sequence of length 0 or 1
FindResult(blocks, left, last_executed) ==
    IF left = 0 /\ ~last_executed THEN Ok(<<>>)
    ELSE IF ~last_executed THEN Ok(<<blocks[left]>>)     \* blocks[left - 1] in Rust
    ELSE Ok(<<blocks[left + 1]>>)                        \* blocks[left] in Rust

\* The call on a non-empty index
FindNonEmpty(blocks, st) ==
    LET l == FindLoop(blocks, st, 0, Len(blocks) - 1, <<>>) IN
    IF l.res.kind # "ok" THEN [res |-> l.res, log |-> l.log]
    ELSE LET last_executed == has_executed(st, blocks[l.left + 1].tx_hash)
             log2 == Append(l.log, Query(l.left, l.left, l.left, last_executed.kind = "ok"))
         IN IF last_executed.kind # "ok"
            THEN [res |-> last_executed, log |-> log2]
            ELSE [res |-> FindResult(blocks, l.left, last_executed.val), log |-> log2]

\* Mutant: no check for an empty list; len() - 1 underflows and the first
\* probe indexes out of bounds.
find_last_executed_unchecked(blocks, st) ==
    IF blocks = <<>>
    THEN [res |-> Panic("index out of bounds"), log |-> <<>>]
    ELSE FindNonEmpty(blocks, st)

\* The whole call: [res, log]
find_last_executed(blocks, st) ==
    IF blocks = <<>> THEN [res |-> Ok(<<>>), log |-> <<>>]
    ELSE FindNonEmpty(blocks, st)

----------------------------------------------------------------------------
(* Operations on the index *)

Ret(op, args, r) == [op |-> op, args |-> args, kind |-> r.kind, val |-> r.val]
NoRet == [op |-> "none", args |-> <<>>, kind |-> "ok", val |-> <<>>]

LoadFromFile ==
    /\ ~getter.loaded
    /\ \E openable \in BOOLEAN :
         LET r == load_from_file(openable, file) IN
         /\ getter' = IF r.kind = "ok" THEN Getter(r.val) ELSE getter
         /\ ret' = Ret("load_from_file", <<>>, IF r.kind = "ok" THEN Ok(<<>>) ELSE r)
    /\ calls' = <<>>
    /\ UNCHANGED <<build, file, store, dir, ltg>>

Slice ==
    /\ getter.loaded
    /\ \E start_tx_order \in Orders, end_tx_order \in Orders :
         ret' = Ret("slice", <<start_tx_order, end_tx_order>>,
                    slice(build, getter.tx_order_hash_blocks, start_tx_order, end_tx_order))
    /\ calls' = <<>>
    /\ UNCHANGED <<build, file, store, getter, dir, ltg>>

FindLastExecuted ==
    /\ getter.loaded
    /\ LET f == find_last_executed(getter.tx_order_hash_blocks, store) IN
         /\ ret' = Ret("find_last_executed", <<>>, f.res)
         /\ calls' = f.log
    /\ UNCHANGED <<build, file, store, getter, dir, ltg>>

----------------------------------------------------------------------------
(* Segment files: SegmentID and the directory *)

ChunkIds == (0 .. MaxChunk) \cup {U128_MAX}
SegNums == 0 .. MaxSeg

SegmentID(c, n) == [chunk_id |-> c, segment_number |-> n]

\* File names: the text of a SegmentID, some other text, or a name that is
\* not valid UTF-8 (to_str() is None).
SegName(c, n) == [kind |-> "seg", chunk_id |-> c, segment_number |-> n]
OtherName == [kind |-> "other", chunk_id |-> 0, segment_number |-> 0]
NonUtf8Name == [kind |-> "nonutf8", chunk_id |-> 0, segment_number |-> 0]

\* path.file_name().and_then(|s| s.to_str()?.parse::<SegmentID>().ok()):
\* Option<SegmentID> as a sequence of length 0 or 1
ParseSegmentID(name) ==
    IF name.kind = "seg" THEN <<SegmentID(name.chunk_id, name.segment_number)>> ELSE <<>>

DirEntry(name, is_file) == [name |-> name, is_file |-> is_file]

----------------------------------------------------------------------------
(* collect_chunks *)

\* Mutant: chunks.insert(chunk_id, vec![segment_number]), which drops the
\* segments seen before.
PushSegmentOverwrite(chunks, chunk_id, segment_number) ==
    [c \in (DOMAIN chunks) \cup {chunk_id} |->
        IF c = chunk_id THEN <<segment_number>> ELSE chunks[c]]

\* chunks.entry(chunk_id).or_default().push(segment_number)
PushSegment(chunks, chunk_id, segment_number) ==
    IF chunk_id \in DOMAIN chunks
    THEN [chunks EXCEPT ![chunk_id] = Append(@, segment_number)]
    ELSE [c \in (DOMAIN chunks) \cup {chunk_id} |->
            IF c = chunk_id THEN <<segment_number>> ELSE chunks[c]]

UpdateMax(max_chunk_id, chunk_id) == IF chunk_id > max_chunk_id THEN chunk_id ELSE max_chunk_id
UpdateMin(min_chunk_id, chunk_id) == IF chunk_id < min_chunk_id THEN chunk_id ELSE min_chunk_id

EmptyChunks == [c \in {} |-> <<>>]

\* The for loop over the directory entries, in iteration order.
RECURSIVE CollectLoop(_, _, _, _, _)
CollectLoop(entries, i, chunks, max_chunk_id, min_chunk_id) ==
    IF i > Len(entries)
    THEN [chunks |-> chunks, min_chunk_id |-> min_chunk_id, max_chunk_id |-> max_chunk_id]
    ELSE LET segment_id == IF entries[i].is_file THEN ParseSegmentID(entries[i].name) ELSE <<>> IN
         IF segment_id = <<>>
         THEN CollectLoop(entries, i + 1, chunks, max_chunk_id, min_chunk_id)
         ELSE LET chunk_id == segment_id[1].chunk_id
                  segment_number == segment_id[1].segment_number
              IN CollectLoop(entries, i + 1,
                             PushSegment(chunks, chunk_id, segment_number),
                             UpdateMax(max_chunk_id, chunk_id),
                             UpdateMin(min_chunk_id, chunk_id))

InitialMax == 0
InitialMin == U128_MAX

\* Mutant: no check for an empty grouping.
collect_chunks_unchecked(segment_dir) ==
    IF ~segment_dir.readable THEN Err("read_dir failed")
    ELSE Ok(CollectLoop(segment_dir.entries, 1, EmptyChunks, InitialMax, InitialMin))

collect_chunks(segment_dir) ==
    IF ~segment_dir.readable THEN Err("read_dir failed")
    ELSE LET c == CollectLoop(segment_dir.entries, 1, EmptyChunks, InitialMax, InitialMin) IN
         IF DOMAIN c.chunks = {} THEN Err("No segment found")
         ELSE Ok(c)

----------------------------------------------------------------------------
(* get_tx_list_from_chunk *)

Call(step, arg, ok) == [step |-> step, arg |-> arg, ok |-> ok]

\* The loop over segment_numbers: fs::read, then segment_from_bytes, per segment.
\* files[n] is what reading the file of segment n gives: "missing", bytes that
\* do not decode ("corrupt"), or bytes that decode ("good").
RECURSIVE ReadSegments(_, _, _, _, _)
ReadSegments(files, segment_numbers, i, segments, log) ==
    IF i > Len(segment_numbers) THEN [res |-> Ok(segments), log |-> log]
    ELSE LET n == segment_numbers[i]
             log1 == Append(log, Call("read", n, files[n] # "missing"))
         IN IF files[n] = "missing" THEN [res |-> Err("No such file or directory"), log |-> log1]
            ELSE LET log2 == Append(log1, Call("segment_from_bytes", n, files[n] = "good")) IN
                 IF files[n] # "good" THEN [res |-> Err("segment decode failed"), log |-> log2]
                 ELSE ReadSegments(files, segment_numbers, i + 1, Append(segments, n), log2)

\* After the loop: chunk_from_segments, get_batches().next().unwrap(),
\* batch.verify(true), batch.get_tx_list().  The transaction list of the batch
\* is represented by the segments it was assembled from, in the order given.
\* Mutant: the result of batch.verify is dropped instead of propagated.
ExtractUnverified(env, segments, log) ==
    [res |-> Ok(segments),
     log |-> Append(Append(log, Call("verify", 0, env.verify_ok)), Call("get_tx_list", 0, TRUE))]

VerifyAndExtract(env, segments, log) ==
    LET log1 == Append(log, Call("verify", 0, env.verify_ok)) IN
    IF ~env.verify_ok THEN [res |-> Err("batch verification failed"), log |-> log1]
    ELSE [res |-> Ok(segments), log |-> Append(log1, Call("get_tx_list", 0, TRUE))]

AssembleChunk(env, segments, log) ==
    LET log1 == Append(log, Call("chunk_from_segments", 0, env.assemble_ok)) IN
    IF ~env.assemble_ok THEN [res |-> Err("chunk assembly failed"), log |-> log1]
    ELSE IF env.batches = 0
         THEN [res |-> Panic("called Option::unwrap() on a None value"), log |-> log1]
         ELSE VerifyAndExtract(env, segments, log1)

get_tx_list_from_chunk(env, chunk_id, segment_numbers) ==
    LET s == ReadSegments(env.files, segment_numbers, 1, <<>>, <<>>) IN
    IF s.res.kind # "ok" THEN s
    ELSE AssembleChunk(env, s.res.val, s.log)

\* What the file system and the codec may answer during one call that reads
\* the segments `segment_numbers`.  Answers the call cannot observe are fixed
\* (the call stops at its first failure).
Range(f) == {f[i] : i \in DOMAIN f}

Env(files, assemble_ok, batches, verify_ok) ==
    [files |-> files, assemble_ok |-> assemble_ok, batches |-> batches, verify_ok |-> verify_ok]

Envs(segment_numbers) ==
    LET S == Range(segment_numbers)
        AllGood == [n \in S |-> "good"]
    IN {Env([n \in S |-> IF n = bad THEN how ELSE "good"], TRUE, 1, TRUE) :
            bad \in S, how \in {"missing", "corrupt"}}
       \cup {Env(AllGood, FALSE, 1, TRUE), Env(AllGood, TRUE, 0, TRUE),
             Env(AllGood, TRUE, 1, FALSE), Env(AllGood, TRUE, 1, TRUE)}

----------------------------------------------------------------------------
(* LedgerTxGetter *)

NoLedgerTxGetter ==
    [exists |-> FALSE, chunks |-> EmptyChunks, min_chunk_id |-> 0, max_chunk_id |-> 0]

LedgerTxGetter(c) ==
    [exists |-> TRUE, chunks |-> c.chunks,
     min_chunk_id |-> c.min_chunk_id, max_chunk_id |-> c.max_chunk_id]

\* LedgerTxGetter::new
new(segment_dir) ==
    LET c == collect_chunks(segment_dir) IN
    IF c.kind # "ok" THEN c ELSE Ok(LedgerTxGetter(c.val))

\* Mutant: must_has is ignored.
LoadUnknownChunkLenient(must_has) == Ok(<<>>)

\* The unknown-chunk branch of load_ledger_tx_list: Option<Vec<..>> as a
\* sequence of length 0 or 1
LoadUnknownChunk(must_has) ==
    IF must_has THEN Err("No segment found in chunk") ELSE Ok(<<>>)

load_ledger_tx_list(env, g, chunk_id, must_has) ==
    IF chunk_id \notin DOMAIN g.chunks
    THEN [res |-> LoadUnknownChunk(must_has), log |-> <<>>]
    ELSE LET tx_list == get_tx_list_from_chunk(env, chunk_id, g.chunks[chunk_id]) IN
         IF tx_list.res.kind # "ok" THEN tx_list
         ELSE [res |-> Ok(<<tx_list.res.val>>), log |-> tx_list.log]

----------------------------------------------------------------------------
(* Operations on the segment directory *)

B2N(b) == IF b THEN 1 ELSE 0

CollectChunks ==
    /\ ret' = Ret("collect_chunks", <<>>, collect_chunks(dir))
    /\ calls' = <<>>
    /\ UNCHANGED <<build, file, store, getter, dir, ltg>>

New ==
    /\ ~ltg.exists
    /\ LET r == new(dir) IN
         /\ ltg' = IF r.kind = "ok" THEN r.val ELSE ltg
         /\ ret' = Ret("new", <<>>, IF r.kind = "ok" THEN Ok(<<>>) ELSE r)
    /\ calls' = <<>>
    /\ UNCHANGED <<build, file, store, getter, dir>>

LoadLedgerTxList ==
    /\ ltg.exists
    /\ \E chunk_id \in ChunkIds, must_has \in BOOLEAN :
       \E env \in Envs(IF chunk_id \in DOMAIN ltg.chunks THEN ltg.chunks[chunk_id] ELSE <<>>) :
         LET r == load_ledger_tx_list(env, ltg, chunk_id, must_has) IN
         /\ ret' = Ret("load_ledger_tx_list", <<chunk_id, B2N(must_has)>>, r.res)
         /\ calls' = r.log
    /\ UNCHANGED <<build, file, store, getter, dir, ltg>>

SegLists == UNION {[1 .. n -> SegNums] : n \in 0 .. MaxSegList}

GetTxListFromChunk ==
    /\ \E chunk_id \in ChunkIds, segment_numbers \in SegLists :
       \E env \in Envs(segment_numbers) :
         LET r == get_tx_list_from_chunk(env, chunk_id, segment_numbers) IN
         /\ ret' = Ret("get_tx_list_from_chunk", <<chunk_id>> \o segment_numbers, r.res)
         /\ calls' = r.log
    /\ UNCHANGED <<build, file, store, getter, dir, ltg>>

----------------------------------------------------------------------------
(* Specifications.  Each draws the inputs of one family of operations; the
   variables of the other family stay at their initial values. *)

SeqsUpTo(S, n) == UNION {[1 .. k -> S] : k \in 0 .. n}

EmptyDir == [readable |-> TRUE, entries |-> <<>>]
NoStore == [h \in Hashes |-> "none"]

\* Valid and malformed lines of an index file.
LoadLineSet ==
    {Display(TxOrderHashBlock(o, 1, n)) : o \in {0, U64_MAX}, n \in {0, U128_MAX}}
    \cup {<<Junk>>, <<BadUtf8>>,
          <<Dec(0), Hex(1)>>, <<Dec(0), Hex(1), Dec(0), Dec(0)>>,
          <<Junk, Hex(1), Dec(0)>>, <<Dec(U64_MAX + 1), Hex(1), Dec(0)>>,
          <<Dec(0), Junk, Dec(0)>>, <<Dec(0), Dec(0), Dec(0)>>,
          <<Dec(0), Hex(1), Junk>>, <<Dec(0), Hex(1), Dec(U128_MAX + 1)>>}

\* Index files of well-formed lines with arbitrary tx_order values.
SliceFiles ==
    {[i \in DOMAIN os |-> Display(TxOrderHashBlock(os[i], 1, 0))] : os \in SeqsUpTo(Orders, MaxSliceLen)}

\* Index files of well-formed lines with tx_order 0, 1, 2, ... and arbitrary hashes.
FindFiles ==
    {[i \in DOMAIN hs |-> Display(TxOrderHashBlock(i - 1, hs[i], 0))] : hs \in SeqsUpTo(Hashes, MaxFindLen)}

Names == {SegName(c, n) : c \in ChunkIds, n \in SegNums} \cup {OtherName, NonUtf8Name}
DirEntries == {DirEntry(name, TRUE) : name \in Names} \cup {DirEntry(SegName(0, 0), FALSE)}

\* A directory holds no two entries of the same name.
Dirs ==
    {[readable |-> TRUE, entries |-> es] :
        es \in {s \in SeqsUpTo(DirEntries, MaxDirEntries) :
                  \A i, j \in DOMAIN s : s[i].name = s[j].name => i = j}}
    \cup {[readable |-> FALSE, entries |-> <<>>]}

\* Directories of segment files only.
LedgerDirs ==
    {[readable |-> TRUE, entries |-> es] :
        es \in {s \in SeqsUpTo({DirEntry(SegName(c, n), TRUE) : c \in ChunkIds, n \in SegNums},
                               MaxLedgerEntries) :
                  \A i, j \in DOMAIN s : s[i].name = s[j].name => i = j}}

InitRest ==
    /\ getter = NoGetter
    /\ ltg = NoLedgerTxGetter
    /\ ret = NoRet
    /\ calls = <<>>

InitLoad ==
    /\ build = "release"
    /\ file \in SeqsUpTo(LoadLineSet, MaxLoadLines)
    /\ store = NoStore
    /\ dir = EmptyDir
    /\ InitRest

InitSlice ==
    /\ build \in Builds
    /\ file \in SliceFiles
    /\ store = NoStore
    /\ dir = EmptyDir
    /\ InitRest

InitFind ==
    /\ build = "release"
    /\ file \in FindFiles
    /\ store \in [Hashes -> {"some", "none", "err"}]
    /\ dir = EmptyDir
    /\ InitRest

InitCollect ==
    /\ build = "release"
    /\ file = <<>>
    /\ store = NoStore
    /\ dir \in Dirs
    /\ InitRest

InitLedger ==
    /\ build = "release"
    /\ file = <<>>
    /\ store = NoStore
    /\ dir \in LedgerDirs
    /\ InitRest

\* Index files whose records all have different hashes (record i has hash i),
\* so that a store can mark any set of positions as executed.
ProbeFiles ==
    {[i \in 1 .. n |-> Display(TxOrderHashBlock(i - 1, i, 0))] : n \in 0 .. MaxProbeLen}

InitProbe ==
    /\ build = "release"
    /\ file \in ProbeFiles
    /\ store \in [1 .. MaxProbeLen -> {"some", "none", "err"}]
    /\ dir = EmptyDir
    /\ InitRest

InitReader ==
    /\ build = "release"
    /\ file = <<>>
    /\ store = NoStore
    /\ dir = EmptyDir
    /\ InitRest

NextLoad == LoadFromFile
NextSlice == LoadFromFile \/ Slice
NextFind == LoadFromFile \/ FindLastExecuted
NextCollect == CollectChunks \/ New
NextLedger == New \/ LoadLedgerTxList
NextReader == GetTxListFromChunk

SpecLoad == InitLoad /\ [][NextLoad]_vars
SpecSlice == InitSlice /\ [][NextSlice]_vars
SpecFind == InitFind /\ [][NextFind]_vars
SpecCollect == InitCollect /\ [][NextCollect]_vars
SpecLedger == InitLedger /\ [][NextLedger]_vars
SpecProbe == InitProbe /\ [][NextFind]_vars
SpecReader == InitReader /\ [][NextReader]_vars

----------------------------------------------------------------------------
(* Properties *)

Blocks == getter.tx_order_hash_blocks
N == Len(Blocks)
TxOrders == {Blocks[i].tx_order : i \in 1 .. N}

\* The store holds the hashes of exactly the records at positions [0, k).
Boundary(k) ==
    /\ \A i \in 1 .. k : store[Blocks[i].tx_hash] = "some"
    /\ \A i \in (k + 1) .. N : store[Blocks[i].tx_hash] = "none"

\* C1: when the store holds exactly the hashes of the records at positions
\* [0, k) of a non-empty index, find_last_executed returns the record at
\* position k - 1, and None when k = 0.
C1_FindReturnsBoundary ==
    (ret.op = "find_last_executed" /\ N >= 1) =>
        \A k \in 0 .. N :
            Boundary(k) =>
                /\ ret.kind = "ok"
                /\ ret.val = IF k = 0 THEN <<>> ELSE <<Blocks[k]>>

C1_Witness ==
    /\ ret.op = "find_last_executed"
    /\ N = 3
    /\ Cardinality({Blocks[i].tx_hash : i \in 1 .. N}) = 3
    /\ Boundary(2)
    /\ ret.kind = "ok"
    /\ ret.val = <<Blocks[2]>>

Contiguous == \A i \in 1 .. (N - 1) : Blocks[i + 1].tx_order = Blocks[i].tx_order + 1
SortedAscending == \A i \in 1 .. (N - 1) : Blocks[i].tx_order <= Blocks[i + 1].tx_order

\* C2: on an index of contiguous ascending tx_order values lo..hi,
\* slice(start, end) with lo <= start <= end <= hi succeeds and returns the
\* end - start + 1 records of tx_order start, start + 1, ..., end.
C2_SliceContiguous ==
    (/\ ret.op = "slice"
     /\ N >= 1
     /\ Contiguous
     /\ Blocks[1].tx_order <= ret.args[1]
     /\ ret.args[1] <= ret.args[2]
     /\ ret.args[2] <= Blocks[N].tx_order) =>
        /\ ret.kind = "ok"
        /\ Len(ret.val) = ret.args[2] - ret.args[1] + 1
        /\ \A j \in 1 .. Len(ret.val) : ret.val[j].tx_order = ret.args[1] + j - 1
        /\ \E p \in 1 .. N : ret.val = SubSeq(Blocks, p, p + Len(ret.val) - 1)

C2_Witness ==
    /\ ret.op = "slice"
    /\ N = 3
    /\ Contiguous
    /\ ret.args = <<Blocks[2].tx_order, Blocks[3].tx_order>>
    /\ ret.kind = "ok"
    /\ ret.val = <<Blocks[2], Blocks[3]>>

\* C3: on an index sorted ascending by tx_order (the empty one included),
\* slice with a start_tx_order that no record has returns an error, whatever
\* end_tx_order is.
C3_SliceStartAbsent ==
    (/\ ret.op = "slice"
     /\ SortedAscending
     /\ ret.args[1] \notin TxOrders) =>
        ret.kind = "err"

C3_Witness ==
    /\ ret.op = "slice"
    /\ N >= 2
    /\ SortedAscending
    /\ ret.args[1] \notin TxOrders
    /\ Blocks[1].tx_order < ret.args[1]
    /\ ret.args[1] < Blocks[N].tx_order
    /\ ret.args[1] <= ret.args[2]
    /\ ret.kind = "err"

\* C4: load_ledger_tx_list for a chunk_id that is not a key of the grouping
\* returns an error when must_has is true and None when it is false, and
\* calls neither the file system nor the codec.
C4_LoadUnknownChunk ==
    (/\ ret.op = "load_ledger_tx_list"
     /\ ret.args[1] \notin DOMAIN ltg.chunks) =>
        /\ ret.args[2] = 1 => ret.kind = "err"
        /\ ret.args[2] = 0 => (ret.kind = "ok" /\ ret.val = <<>>)
        /\ calls = <<>>

C4_Witness ==
    /\ ret.op = "load_ledger_tx_list"
    /\ ltg.exists
    /\ ret.args[1] \notin DOMAIN ltg.chunks
    /\ ret.args[2] = 1
    /\ ret.kind = "err"
    /\ calls = <<>>

\* The (chunk_id, segment_number) pairs of the regular files whose name parses
DirPairs ==
    {<<e.name.chunk_id, e.name.segment_number>> :
        e \in {x \in Range(dir.entries) : x.is_file /\ x.name.kind = "seg"}}

GroupingPairs(chunks) ==
    UNION {{<<c, chunks[c][i]>> : i \in 1 .. Len(chunks[c])} : c \in DOMAIN chunks}

Smallest(S) == CHOOSE x \in S : \A y \in S : x <= y
Largest(S) == CHOOSE x \in S : \A y \in S : x >= y

\* C5: for a readable directory with at least one regular file whose name
\* parses, collect_chunks returns a grouping that holds exactly the pairs of
\* those files, each key with a non-empty list, and min_chunk_id and
\* max_chunk_id are the smallest and the largest key.
C5_CollectChunks ==
    (/\ ret.op = "collect_chunks"
     /\ dir.readable
     /\ DirPairs # {}) =>
        /\ ret.kind = "ok"
        /\ GroupingPairs(ret.val.chunks) = DirPairs
        /\ \A c \in DOMAIN ret.val.chunks : Len(ret.val.chunks[c]) >= 1
        /\ ret.val.min_chunk_id = Smallest(DOMAIN ret.val.chunks)
        /\ ret.val.max_chunk_id = Largest(DOMAIN ret.val.chunks)

C5_Witness ==
    /\ ret.op = "collect_chunks"
    /\ ret.kind = "ok"
    /\ Cardinality(DOMAIN ret.val.chunks) = 2
    /\ U128_MAX \in DOMAIN ret.val.chunks
    /\ \E c \in DOMAIN ret.val.chunks : Len(ret.val.chunks[c]) = 2

\* C6: when no regular file of the directory has a name that parses,
\* collect_chunks and LedgerTxGetter::new return an error, and no
\* LedgerTxGetter has an empty grouping.
C6_NoSegmentFound ==
    /\ (ret.op \in {"collect_chunks", "new"} /\ DirPairs = {}) =>
           /\ ret.kind = "err"
           /\ dir.readable => ret.val = "No segment found"
    /\ (ret.op = "new" /\ ret.kind = "err") => ~ltg.exists
    /\ ltg.exists => DOMAIN ltg.chunks # {}

C6_Witness ==
    /\ ret.op = "new"
    /\ dir.readable
    /\ Len(dir.entries) >= 2
    /\ DirPairs = {}
    /\ ret.kind = "err"
    /\ ~ltg.exists

\* C7: find_last_executed on an empty loaded index returns None without
\* error and without a query to the store, whatever the store answers.
C7_FindOnEmptyIndex ==
    (ret.op = "find_last_executed" /\ N = 0) =>
        /\ ret.kind = "ok"
        /\ ret.val = <<>>
        /\ calls = <<>>

C7_Witness ==
    /\ ret.op = "find_last_executed"
    /\ getter.loaded
    /\ N = 0
    /\ \A h \in Hashes : store[h] = "err"
    /\ ret.kind = "ok"
    /\ calls = <<>>

\* C8: slice with a start_tx_order that is in the index and an end_tx_order
\* below it ends in an error value or an empty sequence; it never aborts the
\* call and never yields records.
C8_SliceEndBeforeStart ==
    (/\ ret.op = "slice"
     /\ ret.args[1] \in TxOrders
     /\ ret.args[2] < ret.args[1]) =>
        \/ ret.kind = "err"
        \/ (ret.kind = "ok" /\ ret.val = <<>>)

\* A line of exactly three fields tx_order:tx_hash:block_number
WellFormed(line) ==
    /\ Len(line) = 3
    /\ line[1].kind = "dec" /\ line[1].val <= U64_MAX
    /\ line[2].kind = "hex"
    /\ line[3].kind = "dec" /\ line[3].val <= U128_MAX

\* C9: load_from_file is all-or-nothing: a line that does not parse, at any
\* position, makes the load fail and leaves no getter; a load that succeeds
\* holds exactly one record per line, in file order.
C9_LoadAllOrNothing ==
    ret.op = "load_from_file" =>
        /\ (\E i \in 1 .. Len(file) : ~WellFormed(file[i])) =>
               (ret.kind = "err" /\ ~getter.loaded)
        /\ ret.kind = "ok" =>
               /\ getter.loaded
               /\ N = Len(file)
               /\ \A i \in 1 .. N : Display(Blocks[i]) = file[i]
        /\ ret.kind # "ok" => getter = NoGetter

C9_Witness ==
    /\ ret.op = "load_from_file"
    /\ Len(file) = 3
    /\ WellFormed(file[1])
    /\ WellFormed(file[2])
    /\ file[3] = <<Junk>>
    /\ ret.kind = "err"
    /\ ~getter.loaded

\* The calls of a get_tx_list_from_chunk that gets through every step
RECURSIVE FullReadLog(_)
FullReadLog(segment_numbers) ==
    IF segment_numbers = <<>> THEN <<>>
    ELSE <<Call("read", Head(segment_numbers), TRUE),
           Call("segment_from_bytes", Head(segment_numbers), TRUE)>>
         \o FullReadLog(Tail(segment_numbers))

FullLog(segment_numbers) ==
    FullReadLog(segment_numbers)
    \o <<Call("chunk_from_segments", 0, TRUE), Call("verify", 0, TRUE), Call("get_tx_list", 0, TRUE)>>

\* C10: get_tx_list_from_chunk returns a transaction list only after every
\* listed segment was read and decoded, the chunk assembled and the first
\* batch verified; a step that fails makes the call return an error and no
\* transaction list is extracted; extraction comes only after a successful
\* verification.
C10_ReaderFailsClosed ==
    ret.op = "get_tx_list_from_chunk" =>
        /\ ret.kind = "ok" => calls = FullLog(Tail(ret.args))
        /\ (\E i \in 1 .. Len(calls) : ~calls[i].ok) => ret.kind = "err"
        /\ ret.kind # "ok" => \A i \in 1 .. Len(calls) : calls[i].step # "get_tx_list"
        /\ \A i \in 1 .. Len(calls) :
               calls[i].step = "get_tx_list" =>
                   \E j \in 1 .. (i - 1) : calls[j] = Call("verify", 0, TRUE)

C10_Witness ==
    /\ ret.op = "get_tx_list_from_chunk"
    /\ Len(ret.args) = 3
    /\ calls = FullReadLog(Tail(ret.args))
               \o <<Call("chunk_from_segments", 0, TRUE), Call("verify", 0, FALSE)>>
    /\ ret.kind = "err"

RECURSIVE CeilLog2(_)
CeilLog2(n) == IF n <= 1 THEN 0 ELSE 1 + CeilLog2((n + 1) \div 2)

\* C11: on a non-empty index and any store, every query of
\* find_last_executed probes the middle of the current range, each loop
\* iteration strictly shrinks right - left, the search ends with
\* left = right, and the call issues at most ceil(log2(N)) + 1 store queries
\* (exactly 1 when N = 1).
C11_FindQueryBound ==
    (ret.op = "find_last_executed" /\ N >= 1) =>
        /\ ret.kind \in {"ok", "err"}
        /\ Len(calls) >= 1
        /\ Len(calls) <= CeilLog2(N) + 1
        /\ N = 1 => Len(calls) = 1
        /\ calls[1].left = 0 /\ calls[1].right = N - 1
        /\ \A i \in 1 .. Len(calls) :
               /\ calls[i].step = "has_executed"
               /\ calls[i].idx = (calls[i].left + calls[i].right) \div 2
               /\ calls[i].left <= calls[i].right
        /\ \A i \in 1 .. (Len(calls) - 1) :
               /\ calls[i].ok
               /\ calls[i].left < calls[i].right
               /\ calls[i + 1].right - calls[i + 1].left < calls[i].right - calls[i].left
        /\ ret.kind = "ok" => calls[Len(calls)].left = calls[Len(calls)].right
        /\ (ret.kind = "err") <=> ~calls[Len(calls)].ok

C11_Witness ==
    /\ ret.op = "find_last_executed"
    /\ N = 5
    /\ \A h \in 1 .. N : store[h] = "none"
    /\ Len(calls) = CeilLog2(N) + 1
    /\ ret.kind = "ok"

StrictlyAscending == \A i \in 1 .. (N - 1) : Blocks[i].tx_order < Blocks[i + 1].tx_order

\* The position (from 1) of the record of tx_order o in a strictly ascending index
Pos(o) == CHOOSE i \in 1 .. N : Blocks[i].tx_order = o

\* Two neighbours between positions p and q whose tx_order differ by more than 1
GapBetween(p, q) == \E i \in p .. (q - 1) : Blocks[i + 1].tx_order # Blocks[i].tx_order + 1

\* C12: slice selects by position: on a strictly ascending index (gaps
\* allowed), with start_tx_order at position p, end_tx_order >= start_tx_order
\* and p + (end_tx_order - start_tx_order) inside the index, it returns the
\* records at positions p .. p + (end_tx_order - start_tx_order) without an
\* error; with a gap in that range the result holds a tx_order above
\* end_tx_order.
C12_SliceByPosition ==
    (/\ ret.op = "slice"
     /\ StrictlyAscending
     /\ ret.args[1] \in TxOrders
     /\ ret.args[2] >= ret.args[1]
     /\ Pos(ret.args[1]) + (ret.args[2] - ret.args[1]) <= N) =>
        LET p == Pos(ret.args[1])
            q == p + (ret.args[2] - ret.args[1])
        IN /\ ret.kind = "ok"
           /\ ret.val = SubSeq(Blocks, p, q)
           /\ GapBetween(p, q) => ret.val[Len(ret.val)].tx_order > ret.args[2]

C12_Witness ==
    /\ ret.op = "slice"
    /\ N = 3
    /\ StrictlyAscending
    /\ ret.args[1] = Blocks[1].tx_order
    /\ ret.args[2] = ret.args[1] + 1
    /\ GapBetween(1, 2)
    /\ ret.kind = "ok"
    /\ ret.val = <<Blocks[1], Blocks[2]>>
    /\ Blocks[2].tx_order > ret.args[2]

\* C13: slice with a start_tx_order found at position p and an
\* end_tx_order >= start_tx_order for which p + (end_tx_order -
\* start_tx_order) lies beyond the last position returns an error value (it
\* does not abort the call).
C13_SliceEndPastLast ==
    (/\ ret.op = "slice"
     /\ ret.args[2] >= ret.args[1]
     /\ binary_search_by(Blocks, ret.args[1]).found
     /\ binary_search_by(Blocks, ret.args[1]).idx + (ret.args[2] - ret.args[1]) >= N) =>
        ret.kind = "err"

\* C14: for a non-empty index and any store, monotone or not, a call of
\* find_last_executed that returns does not abort; a returned record is in
\* the store and the record after it, if there is one, is not; None is
\* returned only when the record at position 0 is not in the store; and the
\* call succeeds when every query does.
C14_FindReturnsTrueBoundary ==
    (ret.op = "find_last_executed" /\ N >= 1) =>
        /\ ret.kind # "panic"
        /\ (\A h \in DOMAIN store : store[h] # "err") => ret.kind = "ok"
        /\ ret.kind = "ok" =>
               IF ret.val = <<>>
               THEN store[Blocks[1].tx_hash] = "none"
               ELSE \E i \in 1 .. N :
                        /\ ret.val = <<Blocks[i]>>
                        /\ store[Blocks[i].tx_hash] = "some"
                        /\ i < N => store[Blocks[i + 1].tx_hash] = "none"

C14_Witness ==
    /\ ret.op = "find_last_executed"
    /\ N = 5
    /\ \A h \in DOMAIN store : store[h] # "err"
    /\ store[Blocks[1].tx_hash] = "some"
    /\ store[Blocks[2].tx_hash] = "none"
    /\ store[Blocks[3].tx_hash] = "some"
    /\ ret.kind = "ok"
    /\ ret.val # <<>>

====
